---- MODULE Spec2Model ----
(***************************************************************************)
(* HostelComplaintX: the Express request handlers (server/routes.ts,       *)
(* server/auth.ts), the DatabaseStorage operations (server/storage.ts)     *)
(* and the table and validation schemas (shared/schema.ts), as a state     *)
(* machine over the users table, the complaints table and the sessions of  *)
(* a few HTTP clients.  One action is one handler run; the two account     *)
(* creation handlers are split at the await between getUserByUsername and  *)
(* createUser, where another request can be served.                        *)
(***************************************************************************)
EXTENDS Integers, FiniteSets, Sequences, TLC

\* ---------------------------------------------------------------- bounds
MaxUsers == 2          \* rows ever inserted into users
MaxComplaints == 2     \* rows ever inserted into complaints
MaxClock == 1          \* milliseconds the clock is followed for

Clients == {"c1", "c2"}
Usernames == {<<"a", "m", "y">>, <<"b", "o", "b">>}
Passwords == {"", "pw1", "pw2"}
LoginNames == Usernames \cup {<<>>}
Salts == {"5a", "c3"}
FixedSalt == "5a"
Absent == "<absent>"   \* a key the JSON body does not have (undefined)
Null == "<null>"       \* SQL NULL / JSON null
\* texts that are searched (names, subjects, descriptions, search strings)
\* are sequences of characters; these two stand for undefined and NULL
AbsentText == <<Absent>>
NullText == <<Null>>

\* ---------------------------------------------------------------- schema
userRoleEnum == {"student", "admin"}
complaintStatusEnum == {"pending", "inprogress", "resolved"}
complaintCategoryEnum ==
  {"maintenance", "food", "cleanliness", "security", "wifi", "other"}

VARIABLES
  users,           \* the users table: a set of rows
  complaints,      \* the complaints table: a set of rows
  nextUserId,      \* stands for gen_random_uuid() of users.id: never reused
  nextComplaintId, \* stands for gen_random_uuid() of complaints.id
  session,         \* session[c]: the user id passport serialized, 0 if none
  pending,         \* pending[c]: an account creation between its two awaits
  resp,            \* the response last sent
  clock            \* the time, in milliseconds: what new Date() reads

vars ==
  <<users, complaints, nextUserId, nextComplaintId, session, pending, resp,
    clock>>

NoUser ==
  [id |-> 0, username |-> AbsentText,
   password |-> [hashed |-> <<>>, salt |-> ""], name |-> AbsentText,
   role |-> Absent, roomNumber |-> Null,
   collegeEmail |-> [local |-> "", domain |-> ""]]

NoPending == [op |-> "none", user |-> NoUser, data |-> NoUser]

\* a stats object; -1 stands for a key the object does not have
NoStats == [total |-> -1, pending |-> -1, inprogress |-> -1, resolved |-> -1]

\* what res.json(...) carries: user rows, complaint rows, a stats object
NoBody == [users |-> {}, rows |-> {}, stats |-> NoStats]
UserBodyOf(us) == [NoBody EXCEPT !.users = us]
RowsBodyOf(rows) == [NoBody EXCEPT !.rows = rows]
StatsBodyOf(stats) == [NoBody EXCEPT !.stats = stats]

\* what a request names: the login name of its body, the id of its path
\* (or the studentId key of a complaint body); 0 and AbsentText when none
NoTarget == [name |-> AbsentText, id |-> 0]
NameTarget(name) == [name |-> name, id |-> 0]
IdTarget(id) == [name |-> AbsentText, id |-> id]

\* an exchange: who asked (req.user's id and role, 0 and Absent when the
\* request carried no user), for what, and the status, message and body sent
NoResp ==
  [caller |-> 0, role |-> Absent, op |-> "none", target |-> NoTarget,
   status |-> 0, message |-> "", body |-> NoBody]

Reply(user, op, target, status, message, body) ==
  [caller |-> user.id, role |-> user.role, op |-> op, target |-> target,
   status |-> status, message |-> message, body |-> body]

\* ------------------------------------------------------------- passwords
\* scrypt(password, salt, 64): a one-way function, taken injective in the
\* password for a given salt.
scrypt(password, salt) == <<password, salt>>

\* `${buf.toString("hex")}.${salt}`
hashPassword(password, salt) ==
  [hashed |-> scrypt(password, salt), salt |-> salt]

\* stored.split("."), then timingSafeEqual(hashedBuf, suppliedBuf)
comparePasswords(supplied, stored) ==
  scrypt(supplied, stored.salt) = stored.hashed

\* ---------------------------------------------------------------- storage
getUser(id) ==
  IF \E u \in users : u.id = id
    THEN CHOOSE u \in users : u.id = id
    ELSE NoUser

\* db.select().from(users).where(eq(users.username, username)) on a table
selectByUsername(table, username) ==
  IF \E u \in table : u.username = username
    THEN CHOOSE u \in table : u.username = username
    ELSE NoUser

getUserByUsername(username) == selectByUsername(users, username)

\* a users table whose username column is not unique
UniqueViolationNever(username) == FALSE

\* users.username is .unique(): the insert raises when the name is taken
UniqueViolation(username) == \E u \in users : u.username = username

\* a row whose role is the column default whatever the values say
createUserRowStudent(insertUser) ==
  [id |-> nextUserId,
   username |-> insertUser.username,
   password |-> insertUser.password,
   name |-> insertUser.name,
   role |-> "student",
   roomNumber |-> IF insertUser.roomNumber = Absent
                    THEN Null ELSE insertUser.roomNumber,
   collegeEmail |-> insertUser.collegeEmail]

\* the row db.insert(users).values(insertUser).returning() yields: id from
\* gen_random_uuid(), role from the column default when the value has none
createUserRow(insertUser) ==
  [id |-> nextUserId,
   username |-> insertUser.username,
   password |-> insertUser.password,
   name |-> insertUser.name,
   role |-> IF insertUser.role = Absent THEN "student" ELSE insertUser.role,
   roomNumber |-> IF insertUser.roomNumber = Absent
                    THEN Null ELSE insertUser.roomNumber,
   collegeEmail |-> insertUser.collegeEmail]

\* ------------------------------------------------------------- validation
\* z.string().email(...).refine(endsWith "@college.edu" / "@university.edu"
\* / "@edu"); an address is [local, domain]
IsCollegeEmail(email) ==
  /\ email.local # ""
  /\ email.domain \in {"college.edu", "university.edu"}

\* insertUserSchema.parse(req.body) does not throw
insertUserSchemaOk(body) ==
  /\ body.username # AbsentText
  /\ body.password # Absent
  /\ body.name # AbsentText
  /\ body.role \in userRoleEnum \cup {Absent}
  /\ IsCollegeEmail(body.collegeEmail)

\* -------------------------------------------------------------- sessions
\* a req.user made up from the session alone, without the look-up
deserializeUserById(c) ==
  IF session[c] = 0
    THEN NoUser
    ELSE [NoUser EXCEPT !.id = session[c], !.role = "admin"]

\* passport.deserializeUser: req.user for a request of client c
deserializeUser(c) ==
  IF session[c] = 0 THEN NoUser ELSE getUser(session[c])

isAuthenticated(user) == user # NoUser

\* the status requireAuth answers with, 0 when it calls next()
requireAuth(user) ==
  IF ~isAuthenticated(user) THEN 401 ELSE 0

\* requireAdmin without its role test
requireAdminAnyRole(user) ==
  IF ~isAuthenticated(user) THEN 403 ELSE 0

\* the status requireAdmin answers with, 0 when it calls next()
requireAdmin(user) ==
  IF ~isAuthenticated(user) \/ user.role # "admin" THEN 403 ELSE 0

Init ==
  /\ users = {}
  /\ complaints = {}
  /\ nextUserId = 1
  /\ nextComplaintId = 1
  /\ session = [c \in Clients |-> 0]
  /\ pending = [c \in Clients |-> NoPending]
  /\ resp = NoResp
  /\ clock = 0

Idle(c) == pending[c] = NoPending

\* the request bodies tried for an account: two per user name (so that a
\* name can be asked for twice, with either role), one with an empty
\* password, and one that insertUserSchema rejects
UserBody(username, password, role, domain) ==
  [username |-> username, password |-> password, name |-> <<"A", "m", "y">>,
   role |-> role, roomNumber |-> Absent,
   collegeEmail |-> [local |-> "a", domain |-> domain]]

UserBodies ==
  {UserBody(<<"a", "m", "y">>, "pw1", Absent, "college.edu"),
   UserBody(<<"a", "m", "y">>, "", "admin", "college.edu"),
   UserBody(<<"b", "o", "b">>, "pw1", "admin", "university.edu"),
   UserBody(<<"b", "o", "b">>, "pw2", "student", "college.edu"),
   UserBody(<<"b", "o", "b">>, "pw2", "student", "gmail.com")}

\* the first part without the look-up: the insert is left to find the name
AccountLookupNoCheck(c, user, op, body) ==
  IF ~insertUserSchemaOk(body)
    THEN /\ resp' = Reply(user, op, NameTarget(body.username), 400,
                           "Invalid input data", NoBody)
         /\ UNCHANGED pending
    ELSE /\ pending' = [pending EXCEPT
                          ![c] = [op |-> op, user |-> user, data |-> body]]
         /\ resp' = resp

\* the part of POST /api/register and POST /api/users up to the await of
\* createUser: parse, look the name up, answer 400 or go on
AccountLookup(c, user, op, body) ==
  IF ~insertUserSchemaOk(body)
    THEN /\ resp' = Reply(user, op, NameTarget(body.username), 400,
                           "Invalid input data", NoBody)
         /\ UNCHANGED pending
    ELSE IF getUserByUsername(body.username) # NoUser
      THEN /\ resp' = Reply(user, op, NameTarget(body.username), 400,
                             "Username already exists", NoBody)
           /\ UNCHANGED pending
      ELSE /\ pending' = [pending EXCEPT
                            ![c] = [op |-> op, user |-> user, data |-> body]]
           /\ resp' = resp

\* POST /api/register, first part
RegisterLookup(c, body) ==
  /\ Idle(c)
  /\ AccountLookup(c, deserializeUser(c), "register", body)
  /\ UNCHANGED <<clock, users, complaints, nextUserId, nextComplaintId, session>>

\* POST /api/users, first part
CreateAccountLookup(c, body) ==
  /\ Idle(c)
  /\ IF requireAdmin(deserializeUser(c)) # 0
       THEN /\ resp' = Reply(deserializeUser(c), "create-account",
                             NameTarget(body.username), 403,
                             "Admin access required", NoBody)
            /\ UNCHANGED pending
       ELSE AccountLookup(c, deserializeUser(c), "create-account", body)
  /\ UNCHANGED <<clock, users, complaints, nextUserId, nextComplaintId, session>>

\* the rest of both handlers: hashPassword, storage.createUser, and for
\* register req.login; a unique violation is thrown to next(error): 500
AccountInsert(c, salt) ==
  /\ pending[c].op \in {"register", "create-account"}
  /\ LET op == pending[c].op
         data == pending[c].data
         row == createUserRow(
                  [data EXCEPT !.password = hashPassword(data.password, salt)])
         user == pending[c].user
     IN IF UniqueViolation(data.username)
          THEN /\ resp' = Reply(user, op, NameTarget(data.username), 500,
                                "Internal Server Error", NoBody)
               /\ UNCHANGED <<users, nextUserId, session>>
          ELSE /\ nextUserId <= MaxUsers
               /\ users' = users \cup {row}
               /\ nextUserId' = nextUserId + 1
               /\ session' = IF op = "register"
                               THEN [session EXCEPT ![c] = row.id]
                               ELSE session
               /\ resp' = Reply(user, op, NameTarget(data.username), 201, "",
                                UserBodyOf({row}))
  /\ pending' = [pending EXCEPT ![c] = NoPending]
  /\ UNCHANGED <<clock, complaints, nextComplaintId>>

\* a verify callback that tells an unknown name from a wrong password
LocalStrategyTelling(table, username, password) ==
  IF username \in {AbsentText, <<>>} \/ password \in {Absent, ""}
    THEN [user |-> NoUser, message |-> "Missing credentials"]
    ELSE LET user == selectByUsername(table, username)
         IN IF user = NoUser
              THEN [user |-> NoUser, message |-> "Unknown username"]
            ELSE IF ~comparePasswords(password, user.password)
              THEN [user |-> NoUser, message |-> "Wrong password"]
              ELSE [user |-> user, message |-> ""]

\* passport-local's Strategy.authenticate around the verify callback of
\* new LocalStrategy(...), run against a users table: a missing or empty
\* field fails before the callback runs; the callback fails when the name is
\* unknown or the password differs
LocalStrategyOn(table, username, password) ==
  IF username \in {AbsentText, <<>>} \/ password \in {Absent, ""}
    THEN [user |-> NoUser, message |-> "Missing credentials"]
    ELSE LET user == selectByUsername(table, username)
         IN IF user = NoUser \/ ~comparePasswords(password, user.password)
              THEN [user |-> NoUser,
                    message |-> "Invalid username or password"]
              ELSE [user |-> user, message |-> ""]

LocalStrategy(username, password) ==
  LocalStrategyOn(users, username, password)

\* the response of POST /api/login to what passport.authenticate hands its
\* callback
LoginReply(user, username, got) ==
  IF got.user = NoUser
    THEN Reply(user, "login", NameTarget(username), 401, got.message, NoBody)
    ELSE Reply(user, "login", NameTarget(username), 200, "",
               UserBodyOf({got.user}))

\* a login that makes the account it logs in an admin
LoginPromoting(c, username, password) ==
  /\ Idle(c)
  /\ LET got == LocalStrategy(username, password)
     IN /\ resp' = LoginReply(deserializeUser(c), username, got)
        /\ session' = IF got.user = NoUser
                        THEN session
                        ELSE [session EXCEPT ![c] = got.user.id]
        /\ users' = {IF u = got.user THEN [u EXCEPT !.role = "admin"] ELSE u :
                       u \in users}
  /\ UNCHANGED <<clock, complaints, nextUserId, nextComplaintId, pending>>

\* POST /api/login
Login(c, username, password) ==
  /\ Idle(c)
  /\ LET got == LocalStrategy(username, password)
     IN /\ resp' = LoginReply(deserializeUser(c), username, got)
        /\ session' = IF got.user = NoUser
                        THEN session
                        ELSE [session EXCEPT ![c] = got.user.id]
  /\ UNCHANGED <<clock, users, complaints, nextUserId, nextComplaintId, pending>>

\* the status POST /api/logout answers with: it has no guard
LogoutStatus(user) == 200

\* a logout that answers and leaves the session as it is
LogoutKeepingSession(c) ==
  /\ Idle(c)
  /\ resp' = Reply(deserializeUser(c), "logout", NoTarget,
                   LogoutStatus(deserializeUser(c)), "OK", NoBody)
  /\ UNCHANGED <<clock, users, complaints, nextUserId, nextComplaintId,
                 session, pending>>

\* POST /api/logout: req.logout, then req.session.destroy
Logout(c) ==
  /\ Idle(c)
  /\ session' = [session EXCEPT ![c] = 0]
  /\ resp' = Reply(deserializeUser(c), "logout", NoTarget,
                   LogoutStatus(deserializeUser(c)), "OK", NoBody)
  /\ UNCHANGED <<clock, users, complaints, nextUserId, nextComplaintId, pending>>

\* GET /api/user
Whoami(c) ==
  /\ Idle(c)
  /\ LET user == deserializeUser(c)
     IN resp' = IF ~isAuthenticated(user)
                  THEN Reply(user, "whoami", NoTarget, 401, "Unauthorized",
                             NoBody)
                  ELSE Reply(user, "whoami", NoTarget, 200, "",
                             UserBodyOf({user}))
  /\ UNCHANGED <<clock, users, complaints, nextUserId, nextComplaintId, session,
                 pending>>

\* ------------------------------------------------------------ complaints
\* insertComplaintSchema.parse(req.body) does not throw
insertComplaintSchemaOk(body) ==
  /\ body.subject # AbsentText
  /\ body.description # AbsentText
  /\ body.category \in complaintCategoryEnum
  /\ body.roomNumber # Absent

\* what insertComplaintSchema.parse returns: the keys of the schema only (a
\* zod object drops the others: studentId, status, adminResponse are omitted)
insertComplaintSchemaParse(body) ==
  [subject |-> body.subject, description |-> body.description,
   category |-> body.category, roomNumber |-> body.roomNumber,
   studentId |-> 0, status |-> Absent, adminResponse |-> Absent]

\* the values with the body spread last:
\* { studentId: req.user.id, ...req.body }
ComplaintValuesFromBody(body, user) ==
  [insertComplaintSchemaParse(body) EXCEPT
     !.studentId = IF body.studentId = 0 THEN user.id ELSE body.studentId]

\* what the handler hands to storage.createComplaint:
\* { ...insertComplaintSchema.parse(req.body), studentId: req.user.id }
ComplaintValues(body, user) ==
  [insertComplaintSchemaParse(body) EXCEPT !.studentId = user.id]

\* the row db.insert(complaints).values({...complaint, updatedAt: new Date()})
\* .returning() yields: id from gen_random_uuid(), status and adminResponse
\* from the column defaults, updatedAt as the handler read the clock, and
\* createdAt from the column default now(), which the database reads when
\* the insert reaches it, lag milliseconds later
createComplaintRow(values, lag) ==
  [id |-> nextComplaintId,
   studentId |-> values.studentId,
   subject |-> values.subject,
   description |-> values.description,
   category |-> values.category,
   roomNumber |-> values.roomNumber,
   status |-> IF values.status = Absent THEN "pending" ELSE values.status,
   adminResponse |-> IF values.adminResponse = Absent
                       THEN Null ELSE values.adminResponse,
   createdAt |-> clock + lag,
   updatedAt |-> clock]

\* complaints.studentId references users.id: the insert raises otherwise
ForeignKeyViolation(studentId) == ~\E u \in users : u.id = studentId

\* the select without its where clause
getComplaintsOfAll(studentId) == complaints

getComplaintsByStudent(studentId) ==
  {k \in complaints : k.studentId = studentId}

\* the counts with every complaint that is not resolved taken as pending
getStudentComplaintStatsOpen(studentId) ==
  LET studentComplaints == {k \in complaints : k.studentId = studentId}
  IN [total |-> Cardinality(studentComplaints),
      pending |-> Cardinality({k \in studentComplaints :
                                 k.status # "resolved"}),
      inprogress |-> -1,
      resolved |-> Cardinality({k \in studentComplaints :
                                  k.status = "resolved"})]

getStudentComplaintStats(studentId) ==
  LET studentComplaints == {k \in complaints : k.studentId = studentId}
  IN [total |-> Cardinality(studentComplaints),
      pending |-> Cardinality({k \in studentComplaints :
                                 k.status = "pending"}),
      inprogress |-> -1,
      resolved |-> Cardinality({k \in studentComplaints :
                                  k.status = "resolved"})]

\* the counts without the inprogress bucket, as the student's stats have them
getComplaintStatsTwoBuckets ==
  [total |-> Cardinality(complaints),
   pending |-> Cardinality({k \in complaints : k.status = "pending"}),
   inprogress |-> 0,
   resolved |-> Cardinality({k \in complaints : k.status = "resolved"})]

getComplaintStats ==
  [total |-> Cardinality(complaints),
   pending |-> Cardinality({k \in complaints : k.status = "pending"}),
   inprogress |-> Cardinality({k \in complaints : k.status = "inprogress"}),
   resolved |-> Cardinality({k \in complaints : k.status = "resolved"})]

\* the status a student-only route answers with before it reaches the
\* store, 0 when it goes on: requireAuth, then the role check of the handler
StudentOnly(user) ==
  IF requireAuth(user) # 0 THEN requireAuth(user)
  ELSE IF user.role # "student" THEN 403
  ELSE 0

\* the message that goes with it: requireAuth's, or the handler's own
GuardMessage(status, what) ==
  IF status = 401 THEN "Not authenticated"
  ELSE IF what = "submit" THEN "Only students can submit complaints"
  ELSE IF what = "list" THEN "Only students can view their complaints"
  ELSE "Only students can view their stats"

ComplaintBody(category, studentId, status, adminResponse) ==
  [subject |-> <<"L", "e", "a", "k">>, description |-> <<"t", "a", "p">>,
   category |-> category, roomNumber |-> "B-12",
   studentId |-> studentId, status |-> status,
   adminResponse |-> adminResponse]

\* the request bodies tried for a complaint: a plain one (studentId 0: the
\* body has no such key), one whose category is not in the enumeration, and
\* ones that carry the keys the schema omits
ComplaintBodies ==
  {ComplaintBody("other", 0, Absent, Absent),
   ComplaintBody("noise", 0, Absent, Absent)}
  \cup {ComplaintBody("other", id, "resolved", "done") : id \in 1..MaxUsers}

\* POST /api/complaints
FileComplaint(c, body, lag) ==
  /\ Idle(c)
  /\ LET user == deserializeUser(c)
         Re(status, message, payload) ==
           Reply(user, "file-complaint", IdTarget(body.studentId), status,
                 message, payload)
         row == createComplaintRow(ComplaintValues(body, user), lag)
     IN IF StudentOnly(user) # 0
          THEN /\ resp' = Re(StudentOnly(user),
                             GuardMessage(StudentOnly(user), "submit"), NoBody)
               /\ UNCHANGED <<complaints, nextComplaintId>>
        ELSE IF ~insertComplaintSchemaOk(body)
          THEN /\ resp' = Re(400, "Invalid input data", NoBody)
               /\ UNCHANGED <<complaints, nextComplaintId>>
        ELSE IF ForeignKeyViolation(row.studentId)
          THEN /\ resp' = Re(500, "Internal Server Error", NoBody)
               /\ UNCHANGED <<complaints, nextComplaintId>>
          ELSE /\ nextComplaintId <= MaxComplaints
               /\ complaints' = complaints \cup {row}
               /\ nextComplaintId' = nextComplaintId + 1
               /\ resp' = Re(201, "", RowsBodyOf({row}))
  /\ UNCHANGED <<clock, users, nextUserId, session, pending>>

\* GET /api/complaints/my
ListMyComplaints(c) ==
  /\ Idle(c)
  /\ LET user == deserializeUser(c)
     IN resp' =
          IF StudentOnly(user) # 0
            THEN Reply(user, "list-my-complaints", NoTarget,
                       StudentOnly(user),
                       GuardMessage(StudentOnly(user), "list"), NoBody)
            ELSE Reply(user, "list-my-complaints", NoTarget, 200, "",
                       RowsBodyOf(getComplaintsByStudent(user.id)))
  /\ UNCHANGED <<clock, users, complaints, nextUserId, nextComplaintId, session,
                 pending>>

\* GET /api/complaints/stats/my
MyStats(c) ==
  /\ Idle(c)
  /\ LET user == deserializeUser(c)
     IN resp' =
          IF StudentOnly(user) # 0
            THEN Reply(user, "my-stats", NoTarget, StudentOnly(user),
                       GuardMessage(StudentOnly(user), "stats"), NoBody)
            ELSE Reply(user, "my-stats", NoTarget, 200, "",
                       StatsBodyOf(getStudentComplaintStats(user.id)))
  /\ UNCHANGED <<clock, users, complaints, nextUserId, nextComplaintId, session,
                 pending>>

\* ------------------------------------------------------- admin routes
\* lower-casing, for ilike, of the letters the texts are written with
Lower(ch) ==
  CASE ch = "A" -> "a"
    [] ch = "B" -> "b"
    [] ch = "L" -> "l"
    [] ch = "T" -> "t"
    [] OTHER -> ch

\* SQL LIKE: % matches any run of characters, _ any one character
RECURSIVE Like(_, _)
Like(text, pattern) ==
  IF pattern = <<>> THEN text = <<>>
  ELSE IF Head(pattern) = "%"
    THEN \/ Like(text, Tail(pattern))
         \/ text # <<>> /\ Like(Tail(text), pattern)
  ELSE /\ text # <<>>
       /\ Head(pattern) = "_" \/ Head(pattern) = Head(text)
       /\ Like(Tail(text), Tail(pattern))

\* ilike(column, `%${search}%`); NULL (a maybe-missing joined name) is no match
ilike(text, search) ==
  /\ text # NullText
  /\ Like([i \in 1..Len(text) |-> Lower(text[i])],
          <<"%">> \o [i \in 1..Len(search) |-> Lower(search[i])] \o <<"%">>)

\* a filter that is given: a query parameter that is neither missing nor ""
Given(value) == value \notin {Absent, ""}
GivenText(text) == text \notin {AbsentText, <<>>}

\* the student object of a joined row: users.* of the left join, NULLs when
\* no user has the complaint's studentId
StudentOf(k) ==
  LET u == getUser(k.studentId)
  IN IF u = NoUser
       THEN [id |-> 0, name |-> NullText, username |-> NullText,
             roomNumber |-> Null]
       ELSE [id |-> u.id, name |-> u.name, username |-> u.username,
             roomNumber |-> u.roomNumber]

WithStudent(k) ==
  [id |-> k.id, studentId |-> k.studentId, subject |-> k.subject,
   description |-> k.description, category |-> k.category,
   roomNumber |-> k.roomNumber, status |-> k.status,
   adminResponse |-> k.adminResponse, createdAt |-> k.createdAt,
   updatedAt |-> k.updatedAt, student |-> StudentOf(k)]

\* a filter value the column's enum type cannot take: the query raises
FilterRaises(filters) ==
  \/ Given(filters.status) /\ filters.status \notin complaintStatusEnum
  \/ Given(filters.category) /\ filters.category \notin complaintCategoryEnum

getAllComplaints(filters) ==
  {WithStudent(k) : k \in
    {k \in complaints :
       /\ Given(filters.status) => k.status = filters.status
       /\ Given(filters.category) => k.category = filters.category
       /\ GivenText(filters.search) =>
            \/ ilike(k.subject, filters.search)
            \/ ilike(k.description, filters.search)
            \/ ilike(StudentOf(k).name, filters.search)}}

\* a look-up that falls back on the whole table when the id matches no row
getComplaintByIdOrAll(id) ==
  IF \E k \in complaints : k.id = id
    THEN {WithStudent(k) : k \in {k \in complaints : k.id = id}}
    ELSE {WithStudent(k) : k \in complaints}

getComplaintById(id) == {WithStudent(k) : k \in {k \in complaints : k.id = id}}

\* a schema whose status is any string
updateComplaintSchemaAny(patch) == TRUE

\* updateComplaintSchema.parse(req.body) does not throw: status is optional
\* (the column has a default), adminResponse optional and nullable
updateComplaintSchemaOk(patch) ==
  patch.status \in complaintStatusEnum \cup {Absent}

\* an update that leaves the status of a resolved complaint alone
updateComplaintRowForward(k, update) ==
  [k EXCEPT
     !.status = IF update.status = Absent \/ @ = "resolved"
                  THEN @ ELSE update.status,
     !.adminResponse = IF update.adminResponse = Absent
                         THEN @ ELSE update.adminResponse,
     !.updatedAt = clock]

\* the row after .set({ ...update, updatedAt: new Date() }): a key that is
\* undefined is left out of the SET
updateComplaintRow(k, update) ==
  [k EXCEPT
     !.status = IF update.status = Absent THEN @ ELSE update.status,
     !.adminResponse = IF update.adminResponse = Absent
                         THEN @ ELSE update.adminResponse,
     !.updatedAt = clock]

getAllUsers(filters) ==
  {u \in users :
     /\ Given(filters.role) => u.role = filters.role
     /\ GivenText(filters.search) =>
          \/ ilike(u.name, filters.search)
          \/ ilike(u.username, filters.search)}

\* a complaints table without the reference to users.id
DeleteRaisesNever(id) == FALSE

\* a row of complaints references the user: the delete raises
DeleteRaises(id) == \E k \in complaints : k.studentId = id

ComplaintFilters ==
  {[status |-> Absent, category |-> Absent, search |-> AbsentText],
   [status |-> "pending", category |-> "other", search |-> <<"l", "E">>],
   [status |-> "", category |-> "noise", search |-> <<>>]}

Patches ==
  {[status |-> "resolved", adminResponse |-> "Fixed"],
   [status |-> "closed", adminResponse |-> Absent]}

UserFilters ==
  {[role |-> Absent, search |-> AbsentText],
   [role |-> "student", search |-> <<"B">>],
   [role |-> "root", search |-> <<>>]}

\* GET /api/complaints
ListAllComplaints(c, filters) ==
  /\ Idle(c)
  /\ LET user == deserializeUser(c)
         Re(status, message, payload) ==
           Reply(user, "list-all-complaints", NoTarget, status, message,
                 payload)
     IN resp' =
          IF requireAdmin(user) # 0
            THEN Re(requireAdmin(user), "Admin access required", NoBody)
          ELSE IF FilterRaises(filters)
            THEN Re(500, "Internal Server Error", NoBody)
            ELSE Re(200, "", RowsBodyOf(getAllComplaints(filters)))
  /\ UNCHANGED <<clock, users, complaints, nextUserId, nextComplaintId, session,
                 pending>>

\* GET /api/complaints/stats
GlobalStats(c) ==
  /\ Idle(c)
  /\ LET user == deserializeUser(c)
     IN resp' =
          IF requireAdmin(user) # 0
            THEN Reply(user, "global-stats", NoTarget, requireAdmin(user),
                       "Admin access required", NoBody)
            ELSE Reply(user, "global-stats", NoTarget, 200, "",
                       StatsBodyOf(getComplaintStats))
  /\ UNCHANGED <<clock, users, complaints, nextUserId, nextComplaintId, session,
                 pending>>

\* GET /api/complaints/:id
GetComplaint(c, id) ==
  /\ Idle(c)
  /\ LET user == deserializeUser(c)
         Re(status, message, payload) ==
           Reply(user, "get-complaint", IdTarget(id), status, message,
                 payload)
     IN resp' =
          IF requireAdmin(user) # 0
            THEN Re(requireAdmin(user), "Admin access required", NoBody)
          ELSE IF getComplaintById(id) = {}
            THEN Re(404, "Complaint not found", NoBody)
            ELSE Re(200, "", RowsBodyOf(getComplaintById(id)))
  /\ UNCHANGED <<clock, users, complaints, nextUserId, nextComplaintId, session,
                 pending>>

\* PATCH /api/complaints/:id
UpdateComplaint(c, id, patch) ==
  /\ Idle(c)
  /\ LET user == deserializeUser(c)
         Re(status, message, payload) ==
           Reply(user, "update-complaint", IdTarget(id), status, message,
                 payload)
         hit == {k \in complaints : k.id = id}
         new == {updateComplaintRow(k, patch) : k \in hit}
     IN IF requireAdmin(user) # 0
          THEN /\ resp' = Re(requireAdmin(user), "Admin access required",
                             NoBody)
               /\ UNCHANGED complaints
        ELSE IF ~updateComplaintSchemaOk(patch)
          THEN /\ resp' = Re(400, "Invalid input data", NoBody)
               /\ UNCHANGED complaints
        ELSE IF hit = {}
          THEN /\ resp' = Re(404, "Complaint not found", NoBody)
               /\ UNCHANGED complaints
          ELSE /\ complaints' = (complaints \ hit) \cup new
               /\ resp' = Re(200, "", RowsBodyOf(new))
  /\ UNCHANGED <<clock, users, nextUserId, nextComplaintId, session, pending>>

\* a SET that keeps the later of the stored and the new updatedAt
updateComplaintSetNewest(k, set) ==
  [k EXCEPT
     !.status = IF set.status = Absent THEN @ ELSE set.status,
     !.adminResponse = IF set.adminResponse = Absent
                         THEN @ ELSE set.adminResponse,
     !.updatedAt = IF set.updatedAt > @ THEN set.updatedAt ELSE @]

\* the row after UPDATE complaints SET ...: set is { ...update, updatedAt },
\* built by updateComplaintStatus before the query is sent
updateComplaintSet(k, set) ==
  [k EXCEPT
     !.status = IF set.status = Absent THEN @ ELSE set.status,
     !.adminResponse = IF set.adminResponse = Absent
                         THEN @ ELSE set.adminResponse,
     !.updatedAt = set.updatedAt]

\* PATCH /api/complaints/:id up to the await of the query: requireAdmin,
\* the parse, and the SET built with updatedAt: new Date(); other requests
\* are served and time passes before the database runs the UPDATE
UpdateComplaintRead(c, id, patch) ==
  /\ Idle(c)
  /\ LET user == deserializeUser(c)
         Re(status, message, payload) ==
           Reply(user, "update-complaint", IdTarget(id), status, message,
                 payload)
     IN IF requireAdmin(user) # 0
          THEN /\ resp' = Re(requireAdmin(user), "Admin access required",
                             NoBody)
               /\ UNCHANGED pending
        ELSE IF ~updateComplaintSchemaOk(patch)
          THEN /\ resp' = Re(400, "Invalid input data", NoBody)
               /\ UNCHANGED pending
          ELSE /\ pending' =
                    [pending EXCEPT
                       ![c] = [op |-> "update-complaint", user |-> user,
                               data |-> [id |-> id,
                                         status |-> patch.status,
                                         adminResponse |-> patch.adminResponse,
                                         updatedAt |-> clock]]]
               /\ resp' = resp
  /\ UNCHANGED <<clock, users, complaints, nextUserId, nextComplaintId,
                 session>>

\* the rest of the handler: the database runs the UPDATE ... RETURNING, the
\* handler answers 404 when no row came back
UpdateComplaintWrite(c) ==
  /\ pending[c].op = "update-complaint"
  /\ LET set == pending[c].data
         Re(status, message, payload) ==
           Reply(pending[c].user, "update-complaint", IdTarget(set.id),
                 status, message, payload)
         hit == {k \in complaints : k.id = set.id}
         new == {updateComplaintSet(k, set) : k \in hit}
     IN IF hit = {}
          THEN /\ resp' = Re(404, "Complaint not found", NoBody)
               /\ UNCHANGED complaints
          ELSE /\ complaints' = (complaints \ hit) \cup new
               /\ resp' = Re(200, "", RowsBodyOf(new))
  /\ pending' = [pending EXCEPT ![c] = NoPending]
  /\ UNCHANGED <<clock, users, nextUserId, nextComplaintId, session>>

\* GET /api/users
ListAccounts(c, filters) ==
  /\ Idle(c)
  /\ LET user == deserializeUser(c)
         Re(status, message, payload) ==
           Reply(user, "list-accounts", NoTarget, status, message,
                 payload)
     IN resp' =
          IF requireAdmin(user) # 0
            THEN Re(requireAdmin(user), "Admin access required", NoBody)
          ELSE IF Given(filters.role) /\ filters.role \notin userRoleEnum
            THEN Re(500, "Internal Server Error", NoBody)
            ELSE Re(200, "", UserBodyOf(getAllUsers(filters)))
  /\ UNCHANGED <<clock, users, complaints, nextUserId, nextComplaintId, session,
                 pending>>

\* the handler with the delete ahead of the admin check
DeleteAccountThenCheck(c, id) ==
  /\ Idle(c)
  /\ LET user == deserializeUser(c)
         hit == {u \in users : u.id = id}
     IN /\ ~DeleteRaises(id)
        /\ users' = users \ hit
        /\ resp' = Reply(user, "delete-account", IdTarget(id),
                         IF requireAdmin(user) # 0 THEN 403
                         ELSE IF hit = {} THEN 404 ELSE 204,
                         "", NoBody)
  /\ UNCHANGED <<clock, complaints, nextUserId, nextComplaintId, session,
                 pending>>

\* the handler over a reference declared ON DELETE CASCADE
DeleteAccountCascade(c, id) ==
  /\ Idle(c)
  /\ LET user == deserializeUser(c)
         Re(status, message, payload) ==
           Reply(user, "delete-account", IdTarget(id), status, message,
                 payload)
         hit == {u \in users : u.id = id}
     IN IF requireAdmin(user) # 0
          THEN /\ resp' = Re(requireAdmin(user), "Admin access required",
                             NoBody)
               /\ UNCHANGED <<users, complaints>>
        ELSE IF hit = {}
          THEN /\ resp' = Re(404, "User not found", NoBody)
               /\ UNCHANGED <<users, complaints>>
          ELSE /\ users' = users \ hit
               /\ complaints' = {k \in complaints : k.studentId # id}
               /\ resp' = Re(204, "", NoBody)
  /\ UNCHANGED <<clock, nextUserId, nextComplaintId, session, pending>>

\* DELETE /api/users/:id
DeleteAccount(c, id) ==
  /\ Idle(c)
  /\ LET user == deserializeUser(c)
         Re(status, message, payload) ==
           Reply(user, "delete-account", IdTarget(id), status, message,
                 payload)
         hit == {u \in users : u.id = id}
     IN IF requireAdmin(user) # 0
          THEN /\ resp' = Re(requireAdmin(user), "Admin access required",
                             NoBody)
               /\ UNCHANGED users
        ELSE IF DeleteRaises(id)
          THEN /\ resp' = Re(500, "Internal Server Error", NoBody)
               /\ UNCHANGED users
        ELSE IF hit = {}
          THEN /\ resp' = Re(404, "User not found", NoBody)
               /\ UNCHANGED users
          ELSE /\ users' = users \ hit
               /\ resp' = Re(204, "", NoBody)
  /\ UNCHANGED <<clock, complaints, nextUserId, nextComplaintId, session,
                 pending>>

\* a millisecond passes and the complaints in progress are resolved
TickResolving ==
  /\ clock < MaxClock
  /\ clock' = clock + 1
  /\ complaints' =
       {[k EXCEPT !.status = IF @ = "inprogress" THEN "resolved" ELSE @] :
          k \in complaints}
  /\ UNCHANGED <<users, nextUserId, nextComplaintId, session, pending, resp>>

\* a millisecond passes
Tick ==
  /\ clock < MaxClock
  /\ clock' = clock + 1
  /\ UNCHANGED <<users, complaints, nextUserId, nextComplaintId, session,
                 pending, resp>>

\* the response is on its way to the client: the handler run has ended
ResponseSent ==
  /\ resp # NoResp
  /\ resp' = NoResp
  /\ UNCHANGED <<clock, users, complaints, nextUserId, nextComplaintId, session,
                 pending>>

\* the server takes a request when the last response has left
Ready == resp = NoResp

\* every handler, any client; the salt is the same at every creation
\* (IdentitySpec draws it) and all of it happens within one millisecond
\* (FilingSpec and StatusSpec let time pass)
Next ==
  \/ \E c \in Clients, body \in UserBodies :
       Ready /\ RegisterLookup(c, body)
  \/ \E c \in Clients, body \in UserBodies :
       Ready /\ CreateAccountLookup(c, body)
  \/ \E c \in Clients : Ready /\ AccountInsert(c, FixedSalt)
  \/ ResponseSent
  \/ \E c \in Clients, username \in LoginNames, password \in Passwords :
       Ready /\ Login(c, username, password)
  \/ \E c \in Clients : Ready /\ Logout(c)
  \/ \E c \in Clients : Ready /\ Whoami(c)
  \/ \E c \in Clients, body \in ComplaintBodies :
       Ready /\ FileComplaint(c, body, 0)
  \/ \E c \in Clients : Ready /\ ListMyComplaints(c)
  \/ \E c \in Clients : Ready /\ MyStats(c)
  \/ \E c \in Clients, filters \in ComplaintFilters :
       Ready /\ ListAllComplaints(c, filters)
  \/ \E c \in Clients : Ready /\ GlobalStats(c)
  \/ \E c \in Clients, id \in 1..MaxComplaints :
       Ready /\ GetComplaint(c, id)
  \/ \E c \in Clients, id \in 1..MaxComplaints, patch \in Patches :
       Ready /\ UpdateComplaint(c, id, patch)
  \/ \E c \in Clients, filters \in UserFilters :
       Ready /\ ListAccounts(c, filters)
  \/ \E c \in Clients, id \in 1..MaxUsers : Ready /\ DeleteAccount(c, id)

Spec == Init /\ [][Next]_vars

\* the account handlers alone, with concurrent account creations and
\* either salt
IdentityNext ==
  \/ \E c \in Clients, body \in UserBodies :
       Ready /\ RegisterLookup(c, body)
  \/ \E c \in Clients, body \in UserBodies :
       Ready /\ CreateAccountLookup(c, body)
  \/ \E c \in Clients, salt \in Salts : Ready /\ AccountInsert(c, salt)
  \/ \E c \in Clients, username \in LoginNames, password \in Passwords :
       Ready /\ Login(c, username, password)
  \/ \E c \in Clients : Ready /\ Logout(c)
  \/ \E c \in Clients : Ready /\ Whoami(c)
  \/ \E c \in Clients, filters \in UserFilters :
       Ready /\ ListAccounts(c, filters)
  \/ \E c \in Clients, id \in 1..MaxUsers : Ready /\ DeleteAccount(c, id)
  \/ ResponseSent

IdentitySpec == Init /\ [][IdentityNext]_vars

\* one browser, used by a student and by an admin in turn
Desk == {"c1"}

\* the accounts of FilingSpec and StatusSpec: a student and an admin
Roster ==
  {UserBody(<<"a", "m", "y">>, "pw1", Absent, "college.edu"),
   UserBody(<<"b", "o", "b">>, "pw1", "admin", "university.edu")}

\* the complaint bodies of FilingSpec: the plain one, one whose subject is
\* the empty string, one without a room number, one whose category is not in
\* the enumeration
FiledBodies ==
  {ComplaintBody("other", 0, Absent, Absent),
   [ComplaintBody("food", 0, Absent, Absent) EXCEPT !.subject = <<>>],
   [ComplaintBody("other", 0, Absent, Absent) EXCEPT !.roomNumber = Absent],
   ComplaintBody("noise", 0, Absent, Absent)}

\* the filing of complaints, with time passing between and within handler
\* runs
FilingNext ==
  \/ \E c \in Desk, body \in Roster : Ready /\ RegisterLookup(c, body)
  \/ \E c \in Desk : Ready /\ AccountInsert(c, FixedSalt)
  \/ \E c \in Desk, username \in Usernames :
       Ready /\ Login(c, username, "pw1")
  \/ \E c \in Desk, body \in FiledBodies, lag \in 0..1 :
       Ready /\ FileComplaint(c, body, lag)
  \/ \E c \in Desk : Ready /\ ListMyComplaints(c)
  \/ Tick
  \/ ResponseSent

FilingSpec == Init /\ [][FilingNext]_vars

\* the complaint bodies of StatusSpec
PlainBodies ==
  {ComplaintBody("other", 0, Absent, Absent),
   ComplaintBody("noise", 0, Absent, Absent)}

\* the patches of StatusSpec: one per status (the one to pending without an
\* adminResponse key), one with a status outside the enumeration, one
\* without a status key
StatusPatches ==
  {[status |-> "resolved", adminResponse |-> "Fixed"],
   [status |-> "inprogress", adminResponse |-> "Seen"],
   [status |-> "pending", adminResponse |-> Absent],
   [status |-> "closed", adminResponse |-> "Seen"],
   [status |-> Absent, adminResponse |-> "Seen"]}

\* the life of a filed complaint, with time passing between handler runs
StatusNext ==
  \/ \E c \in Desk, body \in Roster : Ready /\ RegisterLookup(c, body)
  \/ \E c \in Desk : Ready /\ AccountInsert(c, FixedSalt)
  \/ \E c \in Desk, username \in Usernames :
       Ready /\ Login(c, username, "pw1")
  \/ \E c \in Desk : Ready /\ Logout(c)
  \/ \E c \in Desk, body \in PlainBodies : Ready /\ FileComplaint(c, body, 0)
  \/ \E c \in Desk : Ready /\ ListMyComplaints(c)
  \/ \E c \in Desk : Ready /\ MyStats(c)
  \/ \E c \in Desk, filters \in ComplaintFilters :
       Ready /\ ListAllComplaints(c, filters)
  \/ \E c \in Desk : Ready /\ GlobalStats(c)
  \/ \E c \in Desk, id \in 1..MaxComplaints : Ready /\ GetComplaint(c, id)
  \/ \E c \in Desk, id \in 1..MaxComplaints, patch \in StatusPatches :
       Ready /\ UpdateComplaint(c, id, patch)
  \/ Tick
  \/ ResponseSent

StatusSpec == Init /\ [][StatusNext]_vars

\* the accounts of ReadSpec: two students and an admin
Tenants ==
  {UserBody(<<"a", "m", "y">>, "pw1", Absent, "college.edu"),
   UserBody(<<"b", "o", "b">>, "pw1", "admin", "university.edu"),
   [UserBody(<<"t", "a", "l">>, "pw1", "student", "college.edu")
      EXCEPT !.name = <<"T", "a", "l">>]}

\* the patches of ReadSpec
ProgressPatches ==
  {[status |-> "inprogress", adminResponse |-> "Seen"],
   [status |-> "resolved", adminResponse |-> "Fixed"]}

\* the filters of ReadSpec: none; all three dimensions; a search text that
\* is a LIKE wildcard, with an empty status; a status outside the
\* enumeration; a category with a search text found in an owner's name only
SearchFilters ==
  {[status |-> Absent, category |-> Absent, search |-> AbsentText],
   [status |-> "pending", category |-> "other", search |-> <<"l", "E">>],
   [status |-> "", category |-> Absent, search |-> <<"_">>],
   [status |-> "closed", category |-> Absent, search |-> AbsentText],
   [status |-> Absent, category |-> "food", search |-> <<"t", "A">>]}

\* what students and an admin read of the complaints: the student's counts
\* and the admin's filtered listing
ReadNext ==
  \/ \E c \in Desk, body \in Tenants : Ready /\ RegisterLookup(c, body)
  \/ \E c \in Desk : Ready /\ AccountInsert(c, FixedSalt)
  \/ \E c \in Desk, body \in Tenants :
       Ready /\ Login(c, body.username, body.password)
  \/ \E c \in Desk, body \in FiledBodies : Ready /\ FileComplaint(c, body, 0)
  \/ \E c \in Desk, id \in 1..MaxComplaints, patch \in ProgressPatches :
       Ready /\ UpdateComplaint(c, id, patch)
  \/ \E c \in Desk : Ready /\ MyStats(c)
  \/ \E c \in Desk, filters \in SearchFilters :
       Ready /\ ListAllComplaints(c, filters)
  \/ ResponseSent

ReadSpec == Init /\ [][ReadNext]_vars

\* two admin sessions patching complaints at the same time, with time
\* passing between the reading of the clock and the UPDATE; the accounts
\* are registered and the complaints filed from one browser, which holds
\* the session of the account it registered last; the other browser logs in
RaceNext ==
  \/ \E c \in Desk, body \in Roster : Ready /\ RegisterLookup(c, body)
  \/ \E c \in Desk : Ready /\ AccountInsert(c, FixedSalt)
  \/ \E c \in Clients \ Desk, username \in Usernames :
       Ready /\ Login(c, username, "pw1")
  \/ \E c \in Desk, body \in PlainBodies :
       Ready /\ FileComplaint(c, body, 0)
  \/ \E c \in Clients, id \in 1..MaxComplaints, patch \in ProgressPatches :
       Ready /\ UpdateComplaintRead(c, id, patch)
  \/ \E c \in Clients : Ready /\ UpdateComplaintWrite(c)
  \/ Tick
  \/ ResponseSent

RaceSpec == Init /\ [][RaceNext]_vars

\* ------------------------------------------------------------ the claims
\* the error kind of the specification that a response stands for
Kind(r) ==
  CASE r.status \in {200, 201, 204} -> "Success"
    [] r.status = 401 /\ r.op = "login" -> "InvalidCredentials"
    [] r.status = 401 -> "Unauthenticated"
    [] r.status = 403 -> "Forbidden"
    [] r.status = 400 /\ r.message = "Username already exists" -> "Conflict"
    [] r.status = 400 -> "ValidationError"
    [] r.status = 404 -> "NotFound"
    [] r.status = 500 -> "Internal"
    [] OTHER -> "None"

StudentOps == {"file-complaint", "list-my-complaints", "my-stats"}
AdminOps ==
  {"list-all-complaints", "global-stats", "get-complaint", "update-complaint",
   "list-accounts", "create-account", "delete-account"}
ProtectedOps == StudentOps \cup AdminOps \cup {"logout", "whoami"}
CreateOps == {"register", "create-account"}

\* C1: every operation other than login and register answers a request that
\* carries no verified session (no session, or one whose account is gone)
\* with Unauthenticated.
C1_AnonymousIsUnauthenticated ==
  (resp.op \in ProtectedOps /\ resp.caller = 0)
    => Kind(resp) = "Unauthenticated"

\* C2: a student's request to an admin operation and an admin's request to
\* a student operation are answered with Forbidden.
C2_RoleMismatchIsForbidden ==
  ( \/ resp.role = "student" /\ resp.op \in AdminOps
    \/ resp.role = "admin" /\ resp.op \in StudentOps )
    => Kind(resp) = "Forbidden"

C2_Witness ==
  /\ resp.role = "student"
  /\ resp.op = "update-complaint"
  /\ Kind(resp) = "Forbidden"
  /\ \E k \in complaints : k.id = resp.target.id

\* C3: a response to a student never carries a complaint of another
\* account, and the counts of my-stats are counts of the caller's own
\* complaints.
C3_StudentSeesOnlyOwn ==
  resp.role = "student" =>
    /\ \A k \in resp.body.rows : k.studentId = resp.caller
    /\ (resp.op = "list-my-complaints" /\ resp.status = 200) =>
         resp.body.rows = {k \in complaints : k.studentId = resp.caller}
    /\ (resp.op = "my-stats" /\ resp.status = 200) =>
         resp.body.stats.total =
           Cardinality({k \in complaints : k.studentId = resp.caller})

C3_Witness ==
  /\ resp.role = "student"
  /\ resp.op = "list-my-complaints"
  /\ resp.body.rows # {}
  /\ \E k \in complaints : k.studentId # resp.caller

\* C4: a request answered with Unauthenticated or Forbidden leaves the
\* users table and the complaints table as they were.
C4_RejectionChangesNothing ==
  [][Kind(resp') \in {"Unauthenticated", "Forbidden"}
       => users' = users /\ complaints' = complaints]_vars

C4_Witness ==
  /\ resp.op = "delete-account"
  /\ Kind(resp) = "Forbidden"
  /\ \E u \in users : u.id = resp.target.id /\ u.id # resp.caller

\* C5: the complaint a successful file-complaint stores and returns is owned
\* by the account of the session, whatever studentId, status or adminResponse
\* the body carries.
C5_FiledComplaintIsCallers ==
  (resp.op = "file-complaint" /\ resp.status = 201) =>
    /\ Cardinality(resp.body.rows) = 1
    /\ \A k \in resp.body.rows : k \in complaints /\ k.studentId = resp.caller

C5_Witness ==
  /\ resp.op = "file-complaint"
  /\ resp.status = 201
  /\ resp.target.id # resp.caller
  /\ \E u \in users : u.id = resp.target.id

\* C6: a valid account creation (register, or create-account by an admin)
\* that names a login name some account has when the name is looked up is
\* answered with Conflict, and the users table stays as it was.
C6_TakenNameIsConflict ==
  [][\A c \in Clients, body \in UserBodies :
       ( /\ Ready
         /\ insertUserSchemaOk(body)
         /\ \E u \in users : u.username = body.username
         /\ \/ RegisterLookup(c, body)
            \/ /\ requireAdmin(deserializeUser(c)) = 0
               /\ CreateAccountLookup(c, body) )
       => /\ Kind(resp') = "Conflict"
          /\ users' = users
          /\ pending' = pending]_vars

C6_Witness ==
  /\ resp.op \in CreateOps
  /\ Kind(resp) = "Conflict"
  /\ \E u \in users : u.username = resp.target.name

\* C7: of two concurrent account creations with the same unused login name
\* one succeeds and the other is answered with Conflict: an account creation
\* never ends in Internal.
C7_RaceLoserGetsConflict ==
  resp.op \in CreateOps =>
    Kind(resp) \in {"Success", "Conflict", "ValidationError", "Forbidden"}

\* C8: no two rows of the users table have the same login name.
C8_LoginNameUnique ==
  \A u1, u2 \in users : u1.username = u2.username => u1 = u2

C8_Witness ==
  /\ resp.op \in CreateOps
  /\ resp.status = 500
  /\ Cardinality(users) = 2

\* C9: a login with the name of an existing account and the plaintext
\* credential p it was created with (its stored hash is the hash of p under
\* its salt) succeeds, yields that account and opens its session.
C9_CreatedAccountLogsIn ==
  [][\A c \in Clients, a \in users, p \in Passwords :
       ( /\ Ready
         /\ a.password = hashPassword(p, a.password.salt)
         /\ Login(c, a.username, p) )
       => /\ resp'.status = 200
          /\ resp'.body.users = {a}
          /\ session'[c] = a.id]_vars

\* C10: a failed login is answered as it would be were there no account of
\* that name (same status, message and body), it is InvalidCredentials, and
\* it leaves every session as it was.
C10_FailedLoginTellsNothing ==
  [][\A c \in Clients, username \in LoginNames, password \in Passwords :
       ( /\ Ready
         /\ Login(c, username, password)
         /\ LocalStrategy(username, password).user = NoUser )
       => /\ resp' = LoginReply(deserializeUser(c), username,
                       LocalStrategyOn({a \in users : a.username # username},
                                       username, password))
          /\ Kind(resp') = "InvalidCredentials"
          /\ session' = session]_vars

C10_Witness ==
  /\ resp.op = "login"
  /\ Kind(resp) = "InvalidCredentials"
  /\ resp.message = "Invalid username or password"
  /\ \E a \in users : a.username = resp.target.name

\* C11: no response of register, login, whoami, create-account,
\* list-accounts, list-all-complaints or get-complaint carries the credential
\* hash of an account, neither in an account it returns nor in the owner
\* projection of a complaint.
C11_NoCredentialInResponse ==
  resp.op \in {"register", "login", "whoami", "create-account",
               "list-accounts", "list-all-complaints", "get-complaint"} =>
    /\ \A u \in resp.body.users : "password" \notin DOMAIN u
    /\ \A k \in resp.body.rows : "password" \notin DOMAIN k.student

\* C12: the complaint a successful file-complaint returns has status
\* pending, no admin response, and a created timestamp equal to its updated
\* timestamp.
C12_FiledComplaintIsFresh ==
  (resp.op = "file-complaint" /\ resp.status = 201) =>
    \A k \in resp.body.rows :
      /\ k.status = "pending"
      /\ k.adminResponse = Null
      /\ k.createdAt = k.updatedAt

\* a complaint body with subject, description or room number missing or
\* blank, or a category outside the enumeration
BlankOrMissing(body) ==
  \/ body.subject \in {AbsentText, <<>>}
  \/ body.description \in {AbsentText, <<>>}
  \/ body.roomNumber \in {Absent, ""}
  \/ body.category \notin complaintCategoryEnum

\* C13: a student's file-complaint whose subject, description or room number
\* is missing or blank, or whose category is outside the enumeration, is
\* answered with ValidationError and stores no complaint.
C13_BlankComplaintIsRejected ==
  [][\A c \in Desk, body \in FiledBodies, lag \in 0..1 :
       ( /\ Ready
         /\ StudentOnly(deserializeUser(c)) = 0
         /\ BlankOrMissing(body)
         /\ FileComplaint(c, body, lag) )
       => /\ Kind(resp') = "ValidationError"
          /\ complaints' = complaints]_vars

\* an admin at client c sends update-complaint for the stored complaint k
AdminUpdates(c, k, patch) ==
  /\ Ready
  /\ requireAdmin(deserializeUser(c)) = 0
  /\ k \in complaints
  /\ UpdateComplaint(c, k.id, patch)

\* C14: after an admin's update-complaint(id, {status: s, adminResponse: r})
\* on an existing complaint its status is s, its admin response is r, its
\* updated timestamp is strictly greater than before, its created timestamp,
\* owner, subject, description, category and room number are as before, and
\* every other complaint is as before.
C14_UpdateSetsAndStamps ==
  [][\A c \in Desk, k \in complaints, patch \in StatusPatches :
       ( /\ patch.status \in complaintStatusEnum
         /\ patch.adminResponse # Absent
         /\ AdminUpdates(c, k, patch) )
       => \E n \in complaints' :
            /\ n = [k EXCEPT !.status = n.status,
                             !.adminResponse = n.adminResponse,
                             !.updatedAt = n.updatedAt]
            /\ n.status = patch.status
            /\ n.adminResponse = patch.adminResponse
            /\ n.updatedAt > k.updatedAt
            /\ complaints' \ {n} = complaints \ {k}]_vars

\* C15: an admin's update-complaint whose patch has no status, or a status
\* outside the enumeration, is answered with ValidationError and leaves every
\* complaint as it was.
C15_PatchNeedsStatus ==
  [][\A c \in Desk, k \in complaints, patch \in StatusPatches :
       ( /\ patch.status \notin complaintStatusEnum
         /\ AdminUpdates(c, k, patch) )
       => /\ Kind(resp') = "ValidationError"
          /\ complaints' = complaints]_vars

\* C16: an admin's get-complaint on an id of no stored complaint is
\* answered with NotFound, and so is an admin's update-complaint with a patch
\* the schema accepts (a patch it rejects is answered with ValidationError
\* before the id is looked up); none of them stores or changes a complaint.
C16_UnknownIdIsNotFound ==
  [][\A c \in Desk, id \in 1..MaxComplaints :
       ( /\ Ready
         /\ requireAdmin(deserializeUser(c)) = 0
         /\ ~\E k \in complaints : k.id = id )
       => /\ GetComplaint(c, id) =>
               Kind(resp') = "NotFound" /\ complaints' = complaints
          /\ \A patch \in StatusPatches :
               UpdateComplaint(c, id, patch) =>
                 /\ complaints' = complaints
                 /\ Kind(resp') = IF updateComplaintSchemaOk(patch)
                                    THEN "NotFound" ELSE "ValidationError"]_vars

C16_Witness ==
  /\ resp.op \in {"update-complaint", "get-complaint"}
  /\ resp.role = "admin"
  /\ Kind(resp) = "NotFound"
  /\ complaints # {}
  /\ ~\E k \in complaints : k.id = resp.target.id

\* C17: an admin's update-complaint with a status of the enumeration on an
\* existing complaint succeeds and leaves the complaint in that status,
\* whatever status it was in.
C17_AnyTransitionAllowed ==
  [][\A c \in Desk, k \in complaints, patch \in StatusPatches :
       ( /\ patch.status \in complaintStatusEnum
         /\ AdminUpdates(c, k, patch) )
       => /\ resp'.status = 200
          /\ \E n \in complaints' :
               /\ n.id = k.id
               /\ n.status = patch.status
               /\ resp'.body.rows = {n}]_vars

\* a complaint set back from resolved to pending in one call: only the patch
\* to resolved writes "Fixed", and only the patch to pending keeps it
C17_Witness ==
  /\ resp.op = "update-complaint"
  /\ resp.status = 200
  /\ \E n \in resp.body.rows :
       n.status = "pending" /\ n.adminResponse = "Fixed"

\* C18: every stored complaint has a status and a category of the
\* enumerations.
C18_EnumsHold ==
  \A k \in complaints :
    /\ k.status \in complaintStatusEnum
    /\ k.category \in complaintCategoryEnum

C18_Witness ==
  /\ resp.op = "update-complaint"
  /\ resp.role = "admin"
  /\ Kind(resp) = "ValidationError"
  /\ \E k \in complaints : k.id = resp.target.id /\ k.status = "inprogress"

\* C19: the status, admin response and updated timestamp of a stored
\* complaint change only in a step that is a successful update-complaint of
\* an admin for that complaint.
C19_OnlyAdminUpdateChanges ==
  [][\A k \in complaints, n \in complaints' :
       ( /\ n.id = k.id
         /\ \/ n.status # k.status
            \/ n.adminResponse # k.adminResponse
            \/ n.updatedAt # k.updatedAt )
       => /\ resp'.op = "update-complaint"
          /\ resp'.status = 200
          /\ resp'.role = "admin"
          /\ resp'.target.id = k.id]_vars

\* time has passed over a complaint in progress and its owner reads it
C19_Witness ==
  /\ resp.op = "list-my-complaints"
  /\ resp.status = 200
  /\ \E k \in resp.body.rows :
       k.status = "inprogress" /\ k.updatedAt < clock

\* C20: the total of global-stats is the number of stored complaints and the
\* sum of its three buckets, each the number of complaints in that status.
C20_StatsAddUp ==
  (resp.op = "global-stats" /\ resp.status = 200) =>
    LET stats == resp.body.stats
    IN /\ stats.total = Cardinality(complaints)
       /\ stats.total = stats.pending + stats.inprogress + stats.resolved
       /\ stats.pending =
            Cardinality({k \in complaints : k.status = "pending"})
       /\ stats.inprogress =
            Cardinality({k \in complaints : k.status = "inprogress"})
       /\ stats.resolved =
            Cardinality({k \in complaints : k.status = "resolved"})

C20_Witness ==
  /\ resp.op = "global-stats"
  /\ resp.status = 200
  /\ resp.body.stats.inprogress = 1
  /\ resp.body.stats.resolved = 1

\* C23: an admin's delete-account of an existing account, whether or not it
\* owns complaints and the caller's own included, reports success and removes
\* the account; of an id that no account has, it reports not found; neither
\* ends in an Internal error.
C23_DeleteSucceedsThenNotFound ==
  [][\A c \in Clients, id \in 1..MaxUsers :
       ( /\ Ready
         /\ requireAdmin(deserializeUser(c)) = 0
         /\ DeleteAccount(c, id) )
       => IF \E u \in users : u.id = id
            THEN /\ Kind(resp') = "Success"
                 /\ users' = {u \in users : u.id # id}
            ELSE /\ Kind(resp') = "NotFound"
                 /\ users' = users]_vars

\* C25: an account has in every step the role it had before the step.
C25_RoleNeverChanges ==
  [][\A u \in users, v \in users' : v.id = u.id => v.role = u.role]_vars

\* both roles exist and an account has been logged in again
C25_Witness ==
  /\ resp.op = "login"
  /\ resp.status = 200
  /\ \E u \in resp.body.users : u.role = "student"
  /\ \E u \in users : u.role = "admin"

\* C26: every complaint id of the complaints table is in the table after
\* every step, delete-account of its owner included.
C26_ComplaintsAreNeverRemoved ==
  [][\A k \in complaints : \E n \in complaints' : n.id = k.id]_vars

\* an account has been deleted with complaints in the table
C26_Witness ==
  /\ resp.op = "delete-account"
  /\ resp.status = 204
  /\ complaints # {}

Stale(c) == session[c] # 0 /\ getUser(session[c]) = NoUser

\* the operations behind requireAuth, requireAdmin or a check of their own
GuardedOps == StudentOps \cup AdminOps \cup {"whoami"}

\* client c sends a request (any of the handlers, from its start)
RequestBy(c) ==
  \/ \E body \in UserBodies : RegisterLookup(c, body)
  \/ \E body \in UserBodies : CreateAccountLookup(c, body)
  \/ \E username \in LoginNames, password \in Passwords :
       Login(c, username, password)
  \/ Logout(c)
  \/ Whoami(c)
  \/ \E body \in ComplaintBodies : FileComplaint(c, body, 0)
  \/ ListMyComplaints(c)
  \/ MyStats(c)
  \/ \E filters \in ComplaintFilters : ListAllComplaints(c, filters)
  \/ GlobalStats(c)
  \/ \E id \in 1..MaxComplaints : GetComplaint(c, id)
  \/ \E id \in 1..MaxComplaints, patch \in Patches :
       UpdateComplaint(c, id, patch)
  \/ \E filters \in UserFilters : ListAccounts(c, filters)
  \/ \E id \in 1..MaxUsers : DeleteAccount(c, id)

\* C28: a request of a client whose session names a deleted account is
\* served with no req.user: every guarded operation rejects it (401 behind
\* requireAuth and on whoami, 403 behind requireAdmin) and it changes neither
\* table.
C28_DeletedAccountSessionIsAnonymous ==
  [][\A c \in Clients :
       (Ready /\ Stale(c) /\ RequestBy(c))
       => /\ resp'.caller = 0
          /\ resp'.op \in GuardedOps =>
               Kind(resp') \in {"Unauthenticated", "Forbidden"}
          /\ users' = users
          /\ complaints' = complaints]_vars

\* every client holds a session of a deleted account, and whoami was asked
C28_Witness ==
  /\ \A c \in Clients : Stale(c)
  /\ resp.op = "whoami"
  /\ Kind(resp) = "Unauthenticated"

\* C29: a register of a caller without a session that succeeds has stored an
\* account with the role its body names (student when it names none), has
\* returned it, and leaves the caller's session on it: the caller's next
\* request is served as that account.
C29_RegisterGrantsRequestedRole ==
  [][\A c \in Clients, salt \in Salts :
       ( /\ Ready
         /\ pending[c].op = "register"
         /\ pending[c].user = NoUser
         /\ AccountInsert(c, salt)
         /\ resp'.status = 201 )
       => \E a \in users' \ users :
            /\ a.username = pending[c].data.username
            /\ a.role = IF pending[c].data.role = Absent
                          THEN "student" ELSE pending[c].data.role
            /\ resp'.body.users = {a}
            /\ session'[c] = a.id
            /\ requireAuth(a) = 0
            /\ a.role = "admin" => requireAdmin(a) = 0]_vars

\* a caller without a session has registered as an admin and holds the
\* session of the new account
C29_Witness ==
  /\ resp.op = "register"
  /\ resp.status = 201
  /\ resp.caller = 0
  /\ \E a \in resp.body.users :
       /\ a.role = "admin"
       /\ a \in users
       /\ \E c \in Clients : session[c] = a.id

\* C30, as stated: from a successful login until the logout of the session
\* (that is, while the session carries an account id) whoami returns the
\* account; and a session without an account id gets one only by a
\* successful login (that of a successful register, req.login, counted as
\* one).
C30_SessionLastsFromLoginToLogout ==
  [][\A c \in Clients :
       /\ (Ready /\ session[c] # 0 /\ Whoami(c)) =>
            /\ resp'.status = 200
            /\ \E a \in resp'.body.users : a.id = session[c]
       /\ (session[c] = 0 /\ session'[c] # 0) =>
            \/ resp'.op = "login" /\ resp'.status = 200
            \/ resp'.op = "register" /\ resp'.status = 201]_vars

\* C30, amended: a successful login leaves the session on the account it
\* returns; whoami returns the account of the session while that account is
\* in the users table and is rejected otherwise; a logout empties the
\* session; a session changes only by a successful login, a successful
\* register or a logout; and a request of a session without an account id to
\* a guarded operation is rejected.
C30_SessionFollowsLoginAndLogout ==
  [][\A c \in Clients :
       /\ (Ready /\ Whoami(c)) =>
            IF session[c] # 0 /\ getUser(session[c]) # NoUser
              THEN /\ resp'.status = 200
                   /\ resp'.body.users = {getUser(session[c])}
              ELSE Kind(resp') = "Unauthenticated"
       /\ ( /\ Ready
            /\ \E username \in LoginNames, password \in Passwords :
                 Login(c, username, password)
            /\ resp'.status = 200 ) =>
            /\ session'[c] # 0
            /\ resp'.body.users = {getUser(session'[c])}
       /\ (Ready /\ Logout(c)) => session'[c] = 0
       /\ session'[c] # session[c] =>
            \/ resp'.op = "login" /\ resp'.status = 200
            \/ resp'.op = "register" /\ resp'.status = 201
            \/ resp'.op = "logout"
       /\ ( /\ Ready
            /\ session[c] = 0
            /\ RequestBy(c)
            /\ resp'.op \in GuardedOps ) =>
            Kind(resp') \in {"Unauthenticated", "Forbidden"}]_vars

\* whoami was rejected with accounts in the table and no session on any of
\* them: the sessions that register and login opened have been logged out
C30_Witness ==
  /\ resp.op = "whoami"
  /\ Kind(resp) = "Unauthenticated"
  /\ users # {}
  /\ \A c \in Clients : session[c] = 0

\* C21: my-stats of a student carries three counts over that student's
\* complaints (all of them, the pending ones, the resolved ones) and no
\* inprogress count; the total less the other two is the number of the
\* student's complaints in progress.
C21_MyStatsCountsOwn ==
  (resp.op = "my-stats" /\ resp.status = 200) =>
    LET own == {k \in complaints : k.studentId = resp.caller}
        stats == resp.body.stats
    IN /\ stats.total = Cardinality(own)
       /\ stats.pending = Cardinality({k \in own : k.status = "pending"})
       /\ stats.resolved = Cardinality({k \in own : k.status = "resolved"})
       /\ stats.inprogress = NoStats.inprogress
       /\ stats.total - stats.pending - stats.resolved =
            Cardinality({k \in own : k.status = "inprogress"})

\* a student with a complaint in progress has read the counts
C21_Witness ==
  /\ resp.op = "my-stats"
  /\ resp.status = 200
  /\ resp.body.stats.total = 2
  /\ resp.body.stats.total - resp.body.stats.pending
       - resp.body.stats.resolved = 1

\* search is, letter case aside, a run of consecutive characters of text
Contains(text, search) ==
  /\ text # NullText
  /\ \E i \in 0..(Len(text) - Len(search)) :
       \A j \in 1..Len(search) : Lower(text[i + j]) = Lower(search[j])

\* the stored complaints that satisfy every given dimension of the filter
Satisfying(filters) ==
  {k \in complaints :
     /\ Given(filters.status) => k.status = filters.status
     /\ Given(filters.category) => k.category = filters.category
     /\ GivenText(filters.search) =>
          \/ Contains(k.subject, filters.search)
          \/ Contains(k.description, filters.search)
          \/ Contains(StudentOf(k).name, filters.search)}

\* C22: an admin's list-all-complaints, with a status and a category that
\* are of the enumerations where given, returns the stored complaints whose
\* status and category equal the filter's (where given) and of which the
\* subject, the description or the owner's name has the search text (where
\* given) as a substring, letter case aside.
C22_ListingMatchesFilter ==
  [][\A c \in Desk, filters \in SearchFilters :
       ( /\ Ready
         /\ requireAdmin(deserializeUser(c)) = 0
         /\ Given(filters.status) => filters.status \in complaintStatusEnum
         /\ Given(filters.category) =>
              filters.category \in complaintCategoryEnum
         /\ ListAllComplaints(c, filters) )
       => /\ resp'.status = 200
          /\ resp'.body.rows = {WithStudent(k) : k \in Satisfying(filters)}]_vars

====
